---- MODULE Spec2Model ----
(***************************************************************************)
(* Decorator pipeline around an HTTP client (decorator_pattern.go).        *)
(*                                                                         *)
(* A Client is modelled as the sequence of the layers that wrap the base   *)
(* client, outermost layer first.  A call through the assembled client is  *)
(* a walk over that sequence: a caller enters a layer, the layer runs its  *)
(* code before the delegated call, the call descends, the result comes     *)
(* back and the layer runs its code after the delegated call.  Several     *)
(* callers (goroutines) may be inside the same assembled client at once.   *)
(***************************************************************************)
EXTENDS Integers, Sequences, FiniteSets, TLC

\* ------------------------------------------------------------------ bounds
NumCallers == 2         \* goroutines that call the assembled client
MaxCalls == 2           \* calls through a pipeline in one behaviour
MaxInvocations == 6     \* calls through a bare load balancer in one behaviour
MaxLayers == 2          \* decorators given to Decorate (besides decoratorMain's)
MaxAttempts == 2        \* FaultTolerance attempts parameter, from -1
MaxBackoff == 2         \* FaultTolerance backoff parameter, in time units
MaxFails == 3           \* the base client fails its first 0..MaxFails calls
MaxBackends == 3        \* length of the longest backend list
CounterBits == 3        \* width of the round-robin counter (64 in the code)
RngBits == 3            \* width of the generator state
MaxSeed == 1            \* seeds 0..MaxSeed

Procs == 1 .. NumCallers

VARIABLES
    ds,          \* the decorators given to Decorate, in the order given
    failFirst,   \* the base client fails its first failFirst calls
    dirKind,     \* the Director built: "RoundRobin" or "Random"
    backends,    \* the Director's backends (hosts are numbered from 1)
    robin0,      \* RoundRobin's robin argument
    seed,        \* Random's seed argument
    robin,       \* RoundRobin's counter (the captured robin)
    rnd,         \* per director: Random's generator state (the captured rnd)
    baseCalls,   \* calls the base client has served
    requests,    \* Instrumentation's Counter
    latency,     \* Instrumentation's Histogram: the observations, in order
    logged,      \* the Logger's output: the records, in order
    clock,       \* time, which passes in time.Sleep
    calls,       \* calls made through the assembled client
    picks,       \* the directors' selections (number, host, director), in order
    phase,       \* per caller: "idle", "enter", "return", "sleep", "intn"
    pos,         \* per caller: the layer it is in (0: outside, Len+1: base)
    local,       \* per caller and layer: the layer's local (i, start)
    wake,        \* per caller: when its time.Sleep ends
    raced,       \* per caller: another caller was in rnd.Intn with it
    req,         \* per caller: its *http.Request
    ret,         \* per caller: the (res, err) being returned
    trace        \* per caller: the events of its current call, in order

config == <<ds, failFirst, dirKind, backends, robin0, seed>>
shared == <<robin, rnd, baseCalls, requests, latency, logged, clock, calls, picks>>
frames == <<phase, pos, local, wake, raced, req, ret, trace>>
vars == <<config, shared, frames>>

\* ------------------------------------------------------------- value types
\* (res, err) of Client.Do; 0 stands for nil, n > 0 for the value made by
\* the base client's n-th call.
Response(n) == [res |-> n, err |-> 0]
Failure(n) == [res |-> 0, err |-> n]
NilNil == [res |-> 0, err |-> 0]

Event(i, e, a) == [idx |-> i, ev |-> e, arg |-> a]

\* http.CanonicalHeaderKey, on the names used here.
CanonicalHeaderKey(k) == IF k = "authorization" THEN "Authorization" ELSE k

\* http.Header.Set for Add: the value replaces the values of the key.
HeaderSet(h, k, v) ==
    LET c == CanonicalHeaderKey(k)
    IN  IF c \in DOMAIN h THEN [h EXCEPT ![c] = <<v>>]
        ELSE h @@ (c :> <<v>>)

\* http.Header.Add: append value to the values of the canonical key.
HeaderAdd(h, k, v) ==
    LET c == CanonicalHeaderKey(k)
    IN  IF c \in DOMAIN h THEN [h EXCEPT ![c] = Append(@, v)]
        ELSE h @@ (c :> <<v>>)

\* The request a caller passes in: it carries a credential of its own.
NewRequest ==
    [Method |-> "GET",
     URL |-> [Host |-> 0, Path |-> "/"],
     Header |-> ("Authorization" :> <<"caller">> @@ "User-Agent" :> <<"go">>)]

\* l.Printf("%s: %s %s", r.UserAgent, r.Method, r.URL): the first argument is
\* the method value r.UserAgent, not its result, so %s prints a func.
LogRecord(r) ==
    [ua |-> "%!s(func() string)", method |-> r.Method, url |-> r.URL]

\* time.Sleep(d) returns at once when d <= 0.
Slept(d) == IF d > 0 THEN d ELSE 0

Max(a, b) == IF a >= b THEN a ELSE b

\* ------------------------------------------------------------- decorators
Dec(k, a, b, n, v) ==
    [kind |-> k, attempts |-> a, backoff |-> b, name |-> n, value |-> v]

Logging == Dec("Logging", 0, 0, "", "")
Instrumentation == Dec("Instrumentation", 0, 0, "", "")
FaultTolerance(attempts, backoff) == Dec("FaultTolerance", attempts, backoff, "", "")
Header(name, value) == Dec("Header", 0, 0, name, value)
Authorization(token) == Header("Authorization", token)
\* The directors built: LoadBalancing(dir), and LoadBalancing(twin) for a
\* second director built with the same arguments (used with Random).
Directors == {"dir", "twin"}

LoadBalancing == Dec("LoadBalancing", 0, 0, "dir", "")
LoadBalancingTwin == Dec("LoadBalancing", 0, 0, "twin", "")

\* Wrap with the layers nested the other way round: c's code around d's.
WrapInside(d, i, c) == c \o <<[dec |-> d, idx |-> i]>>

\* decorate(decorated): the client returned runs d's code around c.
Wrap(d, i, c) == <<[dec |-> d, idx |-> i]>> \o c

RECURSIVE DecorateLoop(_, _, _)
DecorateLoop(decorated, dseq, i) ==
    IF i > Len(dseq) THEN decorated
    ELSE DecorateLoop(Wrap(dseq[i], i, decorated), dseq, i + 1)

Decorate(c, dseq) == DecorateLoop(c, dseq, 1)

\* The assembled client; <<>> is the base client alone.
cli == Decorate(<<>>, ds)

BasePos == Len(cli) + 1

\* decoratorMain's pipeline (one time unit is one second).
decoratorMain ==
    <<Authorization("authorizationtokengoeshere"),
      LoadBalancing,
      Logging,
      Instrumentation,
      FaultTolerance(5, 1)>>

\* -------------------------------------------------------------- directors
Uint64Mod == 2 ^ CounterBits

\* An increment that is lost.
AtomicAddLost(v, delta) == v

\* atomic.AddUint64(&robin, delta): the new value.
AtomicAddUint64(v, delta) == (v + delta) % Uint64Mod

\* The pick from the counter's value before the increment.
RoundRobinPickOld(n, bs) == bs[((n - 1) % Len(bs)) + 1]

\* backends[n % uint64(len(backends))], backends indexed from 0.
RoundRobinPick(n, bs) == bs[(n % Len(bs)) + 1]

RngMod == 2 ^ RngBits

\* One generator for every director.
GeneratorGlobal(d) == "dir"

\* The generator director d draws from: the rnd its Random call made.
Generator(d) == d

\* rand.New(rand.NewSource(seed)): the generator state the seed gives.
NewSource(s) == s % RngMod

\* One step of the generator.
RngNext(s) == (5 * s + 3) % RngMod

\* rnd.Intn(n) on state s: the state after the draw and the number drawn.
Intn(s, n) == [state |-> RngNext(s), value |-> RngNext(s) % n]

BackendList(n) == [i \in 1 .. n |-> i]

\* ------------------------------------------------------------ the walk
Layer(p) == cli[pos[p]]

\* A pipeline with a lock that a call in backoff keeps: no other call enters
\* a layer while some call sleeps.
EnteringUnlessSleeping(p, kind) ==
    /\ phase[p] = "enter"
    /\ pos[p] \in 1 .. Len(cli)
    /\ Layer(p).dec.kind = kind
    /\ \A q \in Procs \ {p} : phase[q] # "sleep"

\* Caller p is about to run the code of a layer of the given kind.
Entering(p, kind) ==
    /\ phase[p] = "enter"
    /\ pos[p] \in 1 .. Len(cli)
    /\ Layer(p).dec.kind = kind

\* The delegated call c.Do(r) of p's layer has returned ret[p] to it.
Returned(p, kinds) ==
    /\ phase[p] = "return"
    /\ pos[p] \in 1 .. Len(cli)
    /\ Layer(p).dec.kind \in kinds

\* c.Do(r): p descends into the wrapped client, having logged events evs.
Delegate(p, evs) ==
    /\ phase' = [phase EXCEPT ![p] = "enter"]
    /\ pos' = [pos EXCEPT ![p] = @ + 1]
    /\ trace' = [trace EXCEPT ![p] = @ \o evs]

\* return result: p leaves its layer for the layer (or caller) around it.
ReturnUp(p, result, evs) ==
    /\ phase' = [phase EXCEPT ![p] = "return"]
    /\ pos' = [pos EXCEPT ![p] = @ - 1]
    /\ ret' = [ret EXCEPT ![p] = result]
    /\ trace' = [trace EXCEPT ![p] = @ \o evs]

Outside(p) == pos[p] = 0

\* A caller calls cli.Do(r) with a request of its own; limit bounds the calls
\* of a behaviour.
Invoke(p, limit) ==
    /\ Outside(p)
    /\ calls < limit
    /\ calls' = calls + 1
    /\ phase' = [phase EXCEPT ![p] = "enter"]
    /\ pos' = [pos EXCEPT ![p] = 1]
    /\ req' = [req EXCEPT ![p] = NewRequest]
    /\ ret' = [ret EXCEPT ![p] = NilNil]
    /\ trace' = [trace EXCEPT ![p] = <<>>]
    /\ local' = [local EXCEPT ![p] = [i \in 1 .. Len(ds) |-> 0]]
    /\ UNCHANGED <<config, robin, rnd, baseCalls, requests, latency, logged,
                   clock, picks, wake, raced>>

\* Callers that call one after the other, taking turns.
SeqCall(p) ==
    /\ \A q \in Procs : Outside(q)
    /\ p = (calls % NumCallers) + 1
    /\ Invoke(p, MaxCalls)

\* Callers that call whenever they are outside.
Call(p) == Invoke(p, MaxInvocations)

\* The base client: it fails its first failFirst calls, then succeeds.
BaseResult(n, k) == IF n <= k THEN Failure(n) ELSE Response(n)

BaseDo(p) ==
    /\ phase[p] = "enter"
    /\ pos[p] = BasePos
    /\ baseCalls' = baseCalls + 1
    /\ ReturnUp(p, BaseResult(baseCalls + 1, failFirst),
                <<Event(0, "do", baseCalls + 1)>>)
    /\ UNCHANGED <<config, robin, rnd, requests, latency, logged, clock, calls,
                   picks, local, wake, raced, req>>

\* Logging: print the record, then c.Do(r).
LoggingDo(p) ==
    /\ Entering(p, "Logging")
    /\ logged' = Append(logged, LogRecord(req[p]))
    /\ Delegate(p, <<Event(Layer(p).idx, "pre", 0),
                     Event(Layer(p).idx, "log", Len(logged) + 1)>>)
    /\ UNCHANGED <<config, robin, rnd, baseCalls, requests, latency, clock,
                   calls, picks, local, wake, raced, req, ret>>

\* Instrumentation: the deferred function's argument time.Now() is evaluated
\* at the defer statement, then c.Do(r).
InstrumentationDo(p) ==
    /\ Entering(p, "Instrumentation")
    /\ local' = [local EXCEPT ![p][pos[p]] = clock]
    /\ Delegate(p, <<Event(Layer(p).idx, "pre", 0)>>)
    /\ UNCHANGED <<config, shared, wake, raced, req, ret>>

\* Instrumentation that records after c.Do(r) only when it succeeded (the
\* recording not deferred, behind an early return on error).
InstrumentationReturnOnSuccess(p) ==
    /\ Returned(p, {"Instrumentation"})
    /\ IF ret[p].err = 0
       THEN /\ latency' = Append(latency, clock - local[p][pos[p]])
            /\ requests' = requests + 1
            /\ ReturnUp(p, ret[p],
                        <<Event(Layer(p).idx, "observe", clock - local[p][pos[p]]),
                          Event(Layer(p).idx, "add", 1),
                          Event(Layer(p).idx, "post", 0)>>)
       ELSE /\ ReturnUp(p, ret[p], <<Event(Layer(p).idx, "post", 0)>>)
            /\ UNCHANGED <<latency, requests>>
    /\ UNCHANGED <<config, robin, rnd, baseCalls, logged, clock, calls, picks,
                   local, wake, raced, req>>

\* Instrumentation: the deferred function runs when c.Do(r) has returned.
InstrumentationReturn(p) ==
    /\ Returned(p, {"Instrumentation"})
    /\ latency' = Append(latency, clock - local[p][pos[p]])
    /\ requests' = requests + 1
    /\ ReturnUp(p, ret[p],
                <<Event(Layer(p).idx, "observe", clock - local[p][pos[p]]),
                  Event(Layer(p).idx, "add", 1),
                  Event(Layer(p).idx, "post", 0)>>)
    /\ UNCHANGED <<config, robin, rnd, baseCalls, logged, clock, calls, picks,
                   local, wake, raced, req>>

\* The loop test with < for <=.
AttemptingStrict(i, attempts) == i < attempts

\* The loop test i <= attempts of FaultTolerance.
Attempting(i, attempts) == i <= attempts

\* time.Sleep's argument backoff * time.Duration(i).
BackoffDuration(backoff, i) == backoff * i

\* FaultTolerance: i := 0 and the first loop test.
FaultToleranceDo(p) ==
    /\ Entering(p, "FaultTolerance")
    /\ local' = [local EXCEPT ![p][pos[p]] = 0]
    /\ IF Attempting(0, Layer(p).dec.attempts)
       THEN /\ Delegate(p, <<Event(Layer(p).idx, "pre", 0)>>)
            /\ UNCHANGED ret
       ELSE ReturnUp(p, NilNil, <<Event(Layer(p).idx, "pre", 0),
                                  Event(Layer(p).idx, "post", 0)>>)
    /\ UNCHANGED <<config, shared, wake, raced, req>>

\* FaultTolerance: res, err = c.Do(r) has returned; break on err == nil,
\* else time.Sleep(backoff * i).
FaultToleranceResult(p) ==
    /\ Returned(p, {"FaultTolerance"})
    /\ IF ret[p].err = 0
       THEN /\ ReturnUp(p, ret[p], <<Event(Layer(p).idx, "post", 0)>>)
            /\ UNCHANGED wake
       ELSE LET d == BackoffDuration(Layer(p).dec.backoff, local[p][pos[p]])
            IN  /\ phase' = [phase EXCEPT ![p] = "sleep"]
                /\ wake' = [wake EXCEPT ![p] = clock + Slept(d)]
                /\ trace' = [trace EXCEPT
                                ![p] = Append(@, Event(Layer(p).idx, "sleep", d))]
                /\ UNCHANGED <<pos, ret>>
    /\ UNCHANGED <<config, shared, local, raced, req>>

\* A FaultTolerance that gives each retry a fresh copy of the request.
FaultToleranceWakeFresh(p) ==
    /\ phase[p] = "sleep"
    /\ clock' = Max(clock, wake[p])
    /\ local' = [local EXCEPT ![p][pos[p]] = @ + 1]
    /\ IF Attempting(local[p][pos[p]] + 1, Layer(p).dec.attempts)
       THEN /\ Delegate(p, <<>>)
            /\ req' = [req EXCEPT ![p] = NewRequest]
            /\ UNCHANGED ret
       ELSE /\ ReturnUp(p, ret[p], <<Event(Layer(p).idx, "post", 0)>>)
            /\ UNCHANGED req
    /\ UNCHANGED <<config, robin, rnd, baseCalls, requests, latency, logged,
                   calls, picks, wake, raced>>

\* FaultTolerance: time.Sleep returns, i++ and the next loop test.
FaultToleranceWake(p) ==
    /\ phase[p] = "sleep"
    /\ clock' = Max(clock, wake[p])
    /\ local' = [local EXCEPT ![p][pos[p]] = @ + 1]
    /\ IF Attempting(local[p][pos[p]] + 1, Layer(p).dec.attempts)
       THEN /\ Delegate(p, <<>>)
            /\ UNCHANGED ret
       ELSE ReturnUp(p, ret[p], <<Event(Layer(p).idx, "post", 0)>>)
    /\ UNCHANGED <<config, robin, rnd, baseCalls, requests, latency, logged,
                   calls, picks, wake, raced, req>>

\* Header: r.Header.Add(name, value), then c.Do(r).
HeaderDo(p) ==
    /\ Entering(p, "Header")
    /\ req' = [req EXCEPT ![p].Header =
                  HeaderAdd(@, Layer(p).dec.name, Layer(p).dec.value)]
    /\ Delegate(p, <<Event(Layer(p).idx, "pre", 0)>>)
    /\ UNCHANGED <<config, shared, local, wake, raced, ret>>

\* A RoundRobin director that clears the host when it has no backend.
LoadBalancingRoundRobinClearing(p) ==
    /\ Entering(p, "LoadBalancing")
    /\ dirKind = "RoundRobin"
    /\ IF Len(backends) > 0
       THEN LET n == AtomicAddUint64(robin, 1)
                h == RoundRobinPick(n, backends)
            IN  /\ robin' = n
                /\ req' = [req EXCEPT ![p].URL.Host = h]
                /\ picks' = Append(picks, [n |-> n, host |-> h,
                                            dir |-> Layer(p).dec.name])
                /\ Delegate(p, <<Event(Layer(p).idx, "pre", 0),
                                 Event(Layer(p).idx, "add", n)>>)
       ELSE /\ req' = [req EXCEPT ![p].URL.Host = -1]
            /\ Delegate(p, <<Event(Layer(p).idx, "pre", 0)>>)
            /\ UNCHANGED <<robin, picks>>
    /\ UNCHANGED <<config, rnd, baseCalls, requests, latency, logged, clock,
                   calls, local, wake, raced, ret>>

\* LoadBalancing with the RoundRobin director: dir(r), then c.Do(r).
LoadBalancingRoundRobin(p) ==
    /\ Entering(p, "LoadBalancing")
    /\ dirKind = "RoundRobin"
    /\ IF Len(backends) > 0
       THEN LET n == AtomicAddUint64(robin, 1)
                h == RoundRobinPick(n, backends)
            IN  /\ robin' = n
                /\ req' = [req EXCEPT ![p].URL.Host = h]
                /\ picks' = Append(picks, [n |-> n, host |-> h,
                                            dir |-> Layer(p).dec.name])
                /\ Delegate(p, <<Event(Layer(p).idx, "pre", 0),
                                 Event(Layer(p).idx, "add", n)>>)
       ELSE /\ Delegate(p, <<Event(Layer(p).idx, "pre", 0)>>)
            /\ UNCHANGED <<robin, req, picks>>
    /\ UNCHANGED <<config, rnd, baseCalls, requests, latency, logged, clock,
                   calls, local, wake, raced, ret>>

\* LoadBalancing with the Random director: dir(r) up to the entry of
\* rnd.Intn, which reads the generator's state.
LoadBalancingRandom(p) ==
    /\ Entering(p, "LoadBalancing")
    /\ dirKind = "Random"
    /\ IF Len(backends) > 0
       THEN LET g == Generator(Layer(p).dec.name)
                others == {q \in Procs \ {p} :
                              /\ phase[q] = "intn"
                              /\ Generator(Layer(q).dec.name) = g}
            IN  /\ phase' = [phase EXCEPT ![p] = "intn"]
                /\ local' = [local EXCEPT ![p][pos[p]] = rnd[g]]
                /\ raced' = [q \in Procs |->
                                IF q \in others \/ (q = p /\ others # {})
                                THEN TRUE ELSE raced[q]]
                /\ trace' = [trace EXCEPT
                                ![p] = Append(@, Event(Layer(p).idx, "pre", 0))]
                /\ UNCHANGED pos
       ELSE /\ Delegate(p, <<Event(Layer(p).idx, "pre", 0)>>)
            /\ UNCHANGED <<local, raced>>
    /\ UNCHANGED <<config, shared, wake, req, ret>>

\* The outcomes of rnd.Intn(n) for a caller that read state s: the draw from
\* s, or, when another caller was in rnd.Intn at the same time (a data race
\* on the generator), any state and any index.
IntnOutcomes(s, n, race) ==
    IF race
    THEN [state : 0 .. RngMod - 1, value : 0 .. n - 1]
    ELSE {Intn(s, n)}

\* The Random director: rnd.Intn writes the generator's state and returns
\* (its local copy of the state dies with it), r.URL.Host is set, then c.Do(r).
RandomIntn(p) ==
    /\ phase[p] = "intn"
    /\ \E o \in IntnOutcomes(local[p][pos[p]], Len(backends), raced[p]) :
          /\ rnd' = [rnd EXCEPT ![Generator(Layer(p).dec.name)] = o.state]
          /\ req' = [req EXCEPT ![p].URL.Host = backends[o.value + 1]]
          /\ picks' = Append(picks, [n |-> o.value, host |-> backends[o.value + 1],
                                      dir |-> Layer(p).dec.name])
          /\ Delegate(p, <<Event(Layer(p).idx, "draw", o.value)>>)
    /\ local' = [local EXCEPT ![p][pos[p]] = 0]
    /\ raced' = [raced EXCEPT ![p] = FALSE]
    /\ UNCHANGED <<config, robin, baseCalls, requests, latency, logged, clock,
                   calls, wake, ret>>

\* A layer that wraps the failure it passes on.
PassThroughWrapped(r) == IF r.err # 0 THEN Failure(r.err + 100) ELSE r

\* Logging, Header, LoadBalancing: return c.Do(r).
PassThrough(r) == r

ReturnDelegated(p) ==
    /\ Returned(p, {"Logging", "Header", "LoadBalancing"})
    /\ ReturnUp(p, PassThrough(ret[p]), <<Event(Layer(p).idx, "post", 0)>>)
    /\ UNCHANGED <<config, shared, local, wake, raced, req>>

\* ------------------------------------------------------- specifications
SeqsUpTo(S, n) == UNION {[1 .. m -> S] : m \in 0 .. n}

\* The decorators a pipeline is built from; its FaultTolerance layers share
\* their parameters.
Decorators(attempts, backoff) ==
    {Logging, Instrumentation, Authorization("token"), LoadBalancing,
     FaultTolerance(attempts, backoff)}

Pipelines ==
    UNION {SeqsUpTo(Decorators(a, b), MaxLayers) :
              a \in -1 .. MaxAttempts, b \in 0 .. MaxBackoff}
    \cup {decoratorMain}
    \cup {<<Authorization("token"), Header("authorization", "second")>>,
          <<Header("authorization", "second"), Authorization("token")>>,
          <<Header("X-Id", "id"), FaultTolerance(MaxAttempts, 0)>>}

\* What every construction starts from.
InitState ==
    /\ robin = robin0
    /\ rnd = [d \in Directors |-> NewSource(seed)]
    /\ baseCalls = 0
    /\ requests = 0
    /\ latency = <<>>
    /\ logged = <<>>
    /\ clock = 0
    /\ calls = 0
    /\ picks = <<>>
    /\ phase = [p \in Procs |-> "idle"]
    /\ pos = [p \in Procs |-> 0]
    /\ local = [p \in Procs |-> [i \in 1 .. Len(ds) |-> 0]]
    /\ wake = [p \in Procs |-> 0]
    /\ raced = [p \in Procs |-> FALSE]
    /\ req = [p \in Procs |-> NewRequest]
    /\ ret = [p \in Procs |-> NilNil]
    /\ trace = [p \in Procs |-> <<>>]

\* Pipelines called by one caller at a time; the director is decoratorMain's
\* RoundRobin(0, ...).
Init ==
    /\ ds \in Pipelines
    /\ failFirst \in 0 .. MaxFails
    /\ dirKind = "RoundRobin"
    /\ backends = BackendList(MaxBackends)
    /\ robin0 = 0
    /\ seed = 0
    /\ InitState

Step(p) ==
    \/ BaseDo(p)
    \/ LoggingDo(p)
    \/ InstrumentationDo(p)
    \/ InstrumentationReturn(p)
    \/ FaultToleranceDo(p)
    \/ FaultToleranceResult(p)
    \/ FaultToleranceWake(p)
    \/ HeaderDo(p)
    \/ LoadBalancingRoundRobin(p)
    \/ ReturnDelegated(p)

Next == \E p \in Procs : SeqCall(p) \/ Step(p)

Spec == Init /\ [][Next]_vars

\* Callers that call a bare RoundRobin load balancer concurrently.
InitRoundRobin ==
    /\ ds = <<LoadBalancing>>
    /\ failFirst = 0
    /\ dirKind = "RoundRobin"
    /\ backends \in {BackendList(n) : n \in 0 .. MaxBackends}
    /\ robin0 \in {0, Uint64Mod - 2}
    /\ seed = 0
    /\ InitState

NextRoundRobin ==
    \E p \in Procs :
        \/ Call(p)
        \/ LoadBalancingRoundRobin(p)
        \/ BaseDo(p)
        \/ ReturnDelegated(p)

SpecRoundRobin == InitRoundRobin /\ [][NextRoundRobin]_vars

\* Callers that call a bare Random load balancer concurrently.
InitRandom ==
    /\ ds = <<LoadBalancing>>
    /\ failFirst = 0
    /\ dirKind = "Random"
    /\ backends \in {BackendList(n) : n \in 0 .. MaxBackends}
    /\ robin0 = 0
    /\ seed \in 0 .. MaxSeed
    /\ InitState

NextRandom ==
    \E p \in Procs :
        \/ Invoke(p, MaxCalls)
        \/ LoadBalancingRandom(p)
        \/ RandomIntn(p)
        \/ BaseDo(p)
        \/ ReturnDelegated(p)

SpecRandom == InitRandom /\ [][NextRandom]_vars

\* Directors called by one caller at a time: one LoadBalancing layer with
\* either director, or two layers whose Random directors were built with the
\* same seed and the same backends.
SeqInvoke(p) ==
    /\ \A q \in Procs : Outside(q)
    /\ p = (calls % NumCallers) + 1
    /\ Invoke(p, MaxInvocations)

InitDirectors ==
    /\ dirKind \in {"RoundRobin", "Random"}
    /\ ds \in {<<LoadBalancing>>} \cup
              (IF dirKind = "Random"
               THEN {<<LoadBalancing, LoadBalancingTwin>>} ELSE {})
    /\ failFirst = 0
    /\ backends \in {BackendList(n) : n \in 0 .. MaxBackends}
    /\ robin0 \in {0, Uint64Mod - 2}
    /\ seed \in 0 .. MaxSeed
    /\ InitState

NextDirectors ==
    \E p \in Procs :
        \/ SeqInvoke(p)
        \/ LoadBalancingRoundRobin(p)
        \/ LoadBalancingRandom(p)
        \/ RandomIntn(p)
        \/ BaseDo(p)
        \/ ReturnDelegated(p)

SpecDirectors == InitDirectors /\ [][NextDirectors]_vars

\* Callers that call, at any time, a pipeline of one layer inside a
\* FaultTolerance with one retry; the base client fails its first two calls.
InitConcurrent ==
    /\ ds \in {<<d, FaultTolerance(1, MaxBackoff)>> :
                  d \in {Logging, Instrumentation, Authorization("token"),
                          LoadBalancing}}
    /\ failFirst = 2
    /\ dirKind = "RoundRobin"
    /\ backends = BackendList(MaxBackends)
    /\ robin0 = 0
    /\ seed = 0
    /\ InitState

NextConcurrent == \E p \in Procs : Invoke(p, MaxCalls) \/ Step(p)

SpecConcurrent == InitConcurrent /\ [][NextConcurrent]_vars

\* ------------------------------------------------------ reading a trace
\* Caller p's call has returned to it.
Done(p) == Outside(p) /\ phase[p] = "return"

Events(t, evs) == SelectSeq(t, LAMBDA e : e.ev \in evs)

Count(t, e) == Len(Events(t, {e}))

\* The calls, entries and returns of a trace, without their arguments.
Structure(t) ==
    LET u == Events(t, {"pre", "do", "post"})
    IN  [i \in 1 .. Len(u) |-> <<u[i].idx, u[i].ev>>]

\* Tn's entry, ..., T1's entry, the base, T1's return, ..., Tn's return.
LastOutermost(n) ==
    [i \in 1 .. 2 * n + 1 |->
        IF i <= n THEN <<n + 1 - i, "pre">>
        ELSE IF i = n + 1 THEN <<0, "do">>
        ELSE <<i - n - 1, "post">>]

\* The transforms whose code caller p has entered and not yet left.
InsideOf(p) ==
    {j \in 1 .. Len(ds) :
        Len(SelectSeq(trace[p], LAMBDA e : e.idx = j /\ e.ev = "pre"))
            > Len(SelectSeq(trace[p], LAMBDA e : e.idx = j /\ e.ev = "post"))}

\* Caller p is in the code of a layer, which has begun.
Within(p) == pos[p] \in 1 .. Len(cli) /\ phase[p] # "enter"

FaultToleranceLayers == {j \in 1 .. Len(ds) : ds[j].kind = "FaultTolerance"}

\* The pipeline has one FaultTolerance layer, so that whatever it wraps calls
\* the base client once for each of its attempts.
OneFaultTolerance == Cardinality(FaultToleranceLayers) = 1

TheFaultTolerance == ds[CHOOSE j \in FaultToleranceLayers : TRUE]

\* The failures the base client still had to give when it served the first
\* base call of p's call (the base client's n-th call carries n).
FailsAhead(p) ==
    LET d == Events(trace[p], {"do"})
    IN  IF d = <<>> THEN failFirst ELSE Max(0, failFirst - (d[1].arg - 1))

\* ------------------------------------------------------------------ C1
\* C1: a call through Decorate(base, [T1..Tn]) in which the base is called
\* once runs Tn's code before the delegated call, then Tn-1's, ..., then
\* T1's, then the base, then T1's code after the delegated call, ..., then
\* Tn's: the last decorator given is the outermost layer.
C1_LastGivenOutermost ==
    \A p \in Procs :
        (Done(p) /\ Count(trace[p], "do") = 1)
            => Structure(trace[p]) = LastOutermost(Len(ds))

C1_Witness ==
    \E p \in Procs :
        /\ Done(p)
        /\ Count(trace[p], "do") = 1
        /\ Len(ds) = 2
        /\ ds[1].kind = "Instrumentation"
        /\ ds[2].kind = "FaultTolerance"

\* ------------------------------------------------------------------ C2
\* C2 (as amended): the layers nest in the reverse of the order given: while
\* a caller is in the code of Tj, it is inside exactly Tj, ..., Tn, and
\* while it is in the base client it is inside all of T1..Tn; so the
\* last-given Tn is the outermost layer and T1 wraps only the base.
C2_LayersNestLastOutermost ==
    \A p \in Procs :
        /\ Within(p) => InsideOf(p) = Layer(p).idx .. Len(ds)
        /\ (pos[p] = BasePos /\ phase[p] = "enter") => InsideOf(p) = 1 .. Len(ds)

\* decoratorMain's pipeline in the base client: it got there through
\* FaultTolerance first and Authorization last.
C2_Witness ==
    \E p \in Procs :
        /\ ds = decoratorMain
        /\ pos[p] = BasePos
        /\ Structure(trace[p]) =
               <<<<5, "pre">>, <<4, "pre">>, <<3, "pre">>, <<2, "pre">>, <<1, "pre">>>>

\* C2 as stated: T1 is the outermost layer: while a caller is in the code of
\* Tj, it is inside exactly T1, ..., Tj.
C2_FirstGivenOutermost ==
    \A p \in Procs : Within(p) => InsideOf(p) = 1 .. Layer(p).idx

\* ------------------------------------------------------------------ C3
\* The positions in t of the events of kind e.
Positions(t, e) == {i \in 1 .. Len(t) : t[i].ev = e}

\* C3: FaultTolerance(attempts, backoff) around a client that still fails k
\* times and then succeeds, with attempts >= k >= 0: the call returns the
\* response of the base client's successful call, the base client has been
\* called exactly k + 1 times, and after the successful call there is no
\* further call of the base client and no sleep.
C3_RetriesUntilSuccess ==
    \A p \in Procs :
        (Done(p) /\ OneFaultTolerance
                 /\ TheFaultTolerance.attempts >= 0
                 /\ TheFaultTolerance.attempts >= FailsAhead(p))
            => LET t == trace[p]
                   last == CHOOSE i \in Positions(t, "do") :
                               \A j \in Positions(t, "do") : j <= i
               IN  /\ Count(t, "do") = FailsAhead(p) + 1
                   /\ ret[p] = Response(t[last].arg)
                   /\ \A j \in Positions(t, "sleep") : j < last

C3_Witness ==
    \E p \in Procs :
        /\ Done(p)
        /\ OneFaultTolerance
        /\ FailsAhead(p) = 2
        /\ TheFaultTolerance.attempts = 2
        /\ Count(trace[p], "do") = 3
        /\ ret[p].err = 0

\* ------------------------------------------------------------------ C4
\* C4: FaultTolerance(attempts, backoff) with attempts >= 0 around a client
\* that still fails k times, attempts < k: the call returns a failure after
\* exactly attempts + 1 calls of the base client, and the failure is the one
\* of the last of these calls.
C4_ReturnsLastFailure ==
    \A p \in Procs :
        (Done(p) /\ OneFaultTolerance
                 /\ TheFaultTolerance.attempts >= 0
                 /\ TheFaultTolerance.attempts < FailsAhead(p))
            => LET t == trace[p]
                   last == CHOOSE i \in Positions(t, "do") :
                               \A j \in Positions(t, "do") : j <= i
               IN  /\ Count(t, "do") = TheFaultTolerance.attempts + 1
                   /\ ret[p] = Failure(t[last].arg)

C4_Witness ==
    \E p \in Procs :
        /\ Done(p)
        /\ OneFaultTolerance
        /\ TheFaultTolerance.attempts = 1
        /\ FailsAhead(p) = 3
        /\ Count(trace[p], "do") = 2
        /\ ret[p].err # 0

\* ------------------------------------------------------------------ C5
\* C5: the sleep before the j-th retry (the sleep after the j-th failed
\* attempt, once the retry has begun) lasts backoff * j.
C5_BackoffBeforeRetry ==
    \A p \in Procs :
        OneFaultTolerance
            => LET sleeps == Events(trace[p], {"sleep"})
               IN  \A j \in 1 .. Len(sleeps) :
                       Count(trace[p], "do") > j
                           => sleeps[j].arg = TheFaultTolerance.backoff * j

\* ------------------------------------------------------------------ C6
RECURSIVE TimeSlept(_)
TimeSlept(sleeps) ==
    IF sleeps = <<>> THEN 0
    ELSE Slept(Head(sleeps).arg) + TimeSlept(Tail(sleeps))

\* 1 + 2 + ... + r
Triangle(r) == (r * (r + 1)) \div 2

\* C6: a FaultTolerance call that made r retries has slept at least
\* backoff * (1 + 2 + ... + r) when it returns.
C6_SleptAtLeast ==
    \A p \in Procs :
        (Done(p) /\ OneFaultTolerance /\ Count(trace[p], "do") >= 1)
            => TimeSlept(Events(trace[p], {"sleep"}))
                   >= TheFaultTolerance.backoff * Triangle(Count(trace[p], "do") - 1)

\* ----------------------------------------------------------------- C10
\* C10: every call through a pipeline of these layers returns exactly one of
\* a response and a failure (the base client does).
C10_ExactlyOneOfResponseFailure ==
    \A p \in Procs : Done(p) => (ret[p].res = 0) # (ret[p].err = 0)

\* ------------------------------------------------------------------ C7
\* The counter value caller p's director call obtained, in a set.
Ticket(p) == {e.arg : e \in {trace[p][i] : i \in Positions(trace[p], "add")}}

\* C7: a RoundRobin director with L > 0 backends and starting counter s whose
\* counter has not overflowed sets the host, on its i-th invocation, to
\* backends[(s + i) mod L]; after m * L invocations each backend has been
\* selected m times.
C7_RoundRobinCycle ==
    LET L == Len(backends)
    IN  (L > 0 /\ robin0 + Len(picks) < Uint64Mod)
            => /\ \A i \in 1 .. Len(picks) :
                      picks[i].host = backends[((robin0 + i) % L) + 1]
               /\ \A p \in Procs : \A n \in Ticket(p) :
                      req[p].URL.Host = backends[(n % L) + 1]
               /\ Len(picks) % L = 0
                      => \A b \in 1 .. L :
                             Cardinality({i \in 1 .. Len(picks) :
                                              picks[i].host = backends[b]})
                                 = Len(picks) \div L

C7_Witness ==
    /\ Len(backends) = 3
    /\ robin0 = 0
    /\ Len(picks) = 6
    /\ \A p \in Procs : Done(p)

\* ------------------------------------------------------------------ C8
Abs(x) == IF x >= 0 THEN x ELSE 0 - x

\* C8: with callers in the same RoundRobin director concurrently, no two
\* invocations obtain the same counter value and no value is skipped, so
\* invocations whose counter values lie within L of each other (any L with
\* consecutive values among them) select pairwise different backends, on
\* the director's record and on the callers' requests.
C8_AtomicIncrement ==
    LET L == Len(backends)
        N == Len(picks)
        ticket == [p \in Procs |-> Ticket(p)]
    IN  (L > 0 /\ N < Uint64Mod)
            => /\ \A i \in 1 .. N : \A j \in i + 1 .. N :
                      /\ picks[i].n # picks[j].n
                      /\ Abs(picks[i].n - picks[j].n) < L
                             => picks[i].host # picks[j].host
               /\ {picks[i].n : i \in 1 .. N}
                      = {(robin0 + i) % Uint64Mod : i \in 1 .. N}
               /\ \A p \in Procs : \A q \in Procs \ {p} :
                      \A n \in ticket[p] : \A m \in ticket[q] :
                          /\ n # m
                          /\ Abs(n - m) < L
                                 => req[p].URL.Host # req[q].URL.Host

\* Two callers are past the director at the same time, with counter values
\* that follow each other.
C8_Witness ==
    /\ Len(backends) = 3
    /\ \E p, q \in Procs :
          /\ p # q
          /\ pos[p] = BasePos /\ phase[p] = "enter"
          /\ pos[q] = BasePos /\ phase[q] = "enter"
          /\ \E n \in Ticket(p) : n + 1 \in Ticket(q)

\* ------------------------------------------------------------------ C9
\* C9: no two callers are in the shared generator's rnd.Intn at the same
\* time (the Random director has one generator, made when it is built).
C9_ExclusiveGenerator ==
    Cardinality({p \in Procs : phase[p] = "intn"}) <= 1

\* ----------------------------------------------------------------- C11
LayersOf(kind) == {j \in 1 .. Len(ds) : ds[j].kind = kind}

\* The events of layer j in t.
CountOf(t, j, e) == Len(SelectSeq(t, LAMBDA x : x.idx = j /\ x.ev = e))

\* The returns of Instrumentation layers in the callers' traces.
InstrumentationReturns ==
    {<<p, i>> \in Procs \X (1 .. 64) :
        /\ i <= Len(trace[p])
        /\ trace[p][i].ev = "post"
        /\ trace[p][i].idx \in LayersOf("Instrumentation")}

\* C11: each invocation of an Instrumentation layer observes once and adds 1
\* once, after the delegated call has returned (with a response or a
\* failure) and before the layer returns; the counter has grown by the
\* number of completed invocations.
C11_InstrumentationOncePerCall ==
    /\ requests = Len(latency)
    /\ (calls <= NumCallers /\ \A p \in Procs : Len(trace[p]) <= 64)
           => requests = Cardinality(InstrumentationReturns)
    /\ \A p \in Procs : \A j \in LayersOf("Instrumentation") :
          LET t == trace[p]
          IN  /\ CountOf(t, j, "observe") = CountOf(t, j, "post")
              /\ CountOf(t, j, "add") = CountOf(t, j, "post")
              /\ CountOf(t, j, "pre") - CountOf(t, j, "post") \in {0, 1}
              /\ \A i \in 1 .. Len(t) :
                    (t[i].idx = j /\ t[i].ev = "post")
                        => /\ i > 3
                           /\ t[i - 1] = Event(j, "add", 1)
                           /\ t[i - 2].idx = j /\ t[i - 2].ev = "observe"
                           /\ t[i - 3].idx = j - 1
                           /\ t[i - 3].ev \in {"do", "post"}

\* An Instrumentation layer has recorded a call that failed.
C11_Witness ==
    \E p \in Procs :
        /\ Done(p)
        /\ ds = <<Instrumentation>>
        /\ ret[p].err # 0
        /\ requests = 1
        /\ Count(trace[p], "observe") = 1

\* ----------------------------------------------------------------- C12
\* C12: a call in which the base client is called returns exactly the
\* (response, failure) of the base client's last call, whatever the layers.
C12_ReturnsLastBaseResult ==
    \A p \in Procs :
        (Done(p) /\ Count(trace[p], "do") >= 1)
            => LET t == trace[p]
                   last == CHOOSE i \in Positions(t, "do") :
                               \A j \in Positions(t, "do") : j <= i
               IN  ret[p] = BaseResult(t[last].arg, failFirst)

\* A failure after a retry comes back through a Logging layer.
C12_Witness ==
    \E p \in Procs :
        /\ Done(p)
        /\ Len(ds) = 2
        /\ ds[1].kind = "FaultTolerance"
        /\ ds[2].kind = "Logging"
        /\ Count(trace[p], "do") = 2
        /\ ret[p] = Failure(2)

\* ----------------------------------------------------------------- C13
\* The Header layers caller p has run, in order.
HeaderRuns(p) ==
    SelectSeq(trace[p], LAMBDA e : e.ev = "pre" /\ e.idx \in LayersOf("Header"))

\* The values they added under the name c (names compare as canonical keys).
ValuesAdded(p, c) ==
    LET named == SelectSeq(HeaderRuns(p),
                           LAMBDA e : ds[e.idx].name \in
                               IF c = "Authorization"
                               THEN {"Authorization", "authorization"} ELSE {c})
    IN  [i \in 1 .. Len(named) |-> ds[named[i].idx].value]

ValuesBefore(c) ==
    IF c \in DOMAIN NewRequest.Header THEN NewRequest.Header[c] ELSE <<>>

\* C13: the request's headers are those it came with, each followed by the
\* values the Header layers have added under its name, one for each run of a
\* layer, in the order of the runs; nothing is removed or overwritten.
C13_HeaderOnlyAppends ==
    \A p \in Procs :
        LET h == req[p].Header
        IN  /\ DOMAIN NewRequest.Header \subseteq DOMAIN h
            /\ \A c \in DOMAIN h : h[c] = ValuesBefore(c) \o ValuesAdded(p, c)
            /\ \A c \in {"Authorization", "X-Id"} :
                   c \notin DOMAIN h => ValuesAdded(p, c) = <<>>

\* Two layers have added to the name the caller had set.
C13_Witness ==
    \E p \in Procs :
        /\ Done(p)
        /\ ds = <<Authorization("token"), Header("authorization", "second")>>
        /\ req[p].Header["Authorization"] = <<"caller", "second", "token">>

\* ----------------------------------------------------------------- C14
\* C14: with no backends, a RoundRobin or Random director changes nothing
\* (the host stays what the caller set, the counter and the generators stay
\* where they started, nothing is picked), and each LoadBalancing layer
\* still calls the client it wraps once, so the call reaches the base once
\* and returns its response.
C14_NoBackendsNoChange ==
    Len(backends) = 0 =>
        /\ picks = <<>>
        /\ robin = robin0
        /\ \A d \in Directors : rnd[d] = NewSource(seed)
        /\ \A p \in Procs :
              /\ req[p].URL.Host = NewRequest.URL.Host
              /\ phase[p] # "intn"
              /\ \A j \in LayersOf("LoadBalancing") :
                    CountOf(trace[p], j, "pre") <= 1
              /\ Done(p) =>
                    /\ \A j \in LayersOf("LoadBalancing") :
                          /\ CountOf(trace[p], j, "pre") = 1
                          /\ CountOf(trace[p], j, "post") = 1
                    /\ Count(trace[p], "do") = 1
                    /\ ret[p].res # 0 /\ ret[p].err = 0

\* Both directors have been called with no backends.
C14_Witness ==
    /\ Len(backends) = 0
    /\ calls = MaxInvocations
    /\ baseCalls = MaxInvocations
    /\ \A p \in Procs : Done(p)

\* ----------------------------------------------------------------- C15
PicksOf(d) == SelectSeq(picks, LAMBDA k : k.dir = d)

HostsOf(bs) == {bs[i] : i \in 1 .. Len(bs)}

\* C15: two Random directors built with the same seed and the same backends
\* and called one call at a time make the same selections: the i-th host of
\* one is the i-th host of the other, and every host is one of the backends.
C15_SameSeedSameSequence ==
    (dirKind = "Random" /\ Len(backends) > 0) =>
        /\ \A i \in 1 .. Len(picks) : picks[i].host \in HostsOf(backends)
        /\ \A p \in Procs :
              phase[p] \notin {"idle"} => req[p].URL.Host \in HostsOf(backends) \cup {NewRequest.URL.Host}
        /\ ds = <<LoadBalancing, LoadBalancingTwin>> =>
              LET a == PicksOf("dir")
                  b == PicksOf("twin")
              IN  /\ Len(b) - Len(a) \in {0, 1}
                  /\ \A i \in 1 .. Len(a) : a[i].host = b[i].host

\* Both directors have made MaxInvocations selections, not all the same.
C15_Witness ==
    /\ dirKind = "Random"
    /\ ds = <<LoadBalancing, LoadBalancingTwin>>
    /\ Len(backends) = MaxBackends
    /\ Len(PicksOf("dir")) = MaxInvocations
    /\ Len(PicksOf("twin")) = MaxInvocations
    /\ \E i, j \in 1 .. MaxInvocations :
          PicksOf("dir")[i].host # PicksOf("dir")[j].host

\* ----------------------------------------------------------------- C16
\* C16: each entry of a Logging layer prints one record, before it calls the
\* client it wraps, and the record holds the request's user agent, method
\* and URL; the layer calls the wrapped client once.
C16_LogsUserAgentMethodURL ==
    \A p \in Procs : \A j \in LayersOf("Logging") :
        LET t == trace[p]
        IN  /\ CountOf(t, j, "log") = CountOf(t, j, "pre")
            /\ \A i \in 1 .. Len(t) :
                  (t[i].idx = j /\ t[i].ev = "log")
                      => /\ t[i - 1] = Event(j, "pre", 0)
                         /\ t[i].arg <= Len(logged)
                         /\ logged[t[i].arg].ua = NewRequest.Header["User-Agent"][1]
                         /\ logged[t[i].arg].method = NewRequest.Method
                         /\ logged[t[i].arg].url.Path = NewRequest.URL.Path
            /\ (Done(p) /\ FaultToleranceLayers = {})
                   => CountOf(t, j, "pre") = 1 /\ CountOf(t, j, "post") = 1

\* ----------------------------------------------------------------- C17
\* C17: FaultTolerance sleeps only between two attempts: a call that has
\* returned has no backoff sleep after its last attempt, and a call that
\* used up its attempts has slept attempts times.
C17_SleepsOnlyBetweenAttempts ==
    \A p \in Procs :
        (Done(p) /\ OneFaultTolerance /\ Count(trace[p], "do") >= 1)
            => LET t == trace[p]
                   slept == {i \in Positions(t, "sleep") : Slept(t[i].arg) > 0}
               IN  /\ \A i \in slept : \E k \in Positions(t, "do") : k > i
                   /\ (ret[p].err # 0 /\ TheFaultTolerance.backoff > 0)
                          => Cardinality(slept) = TheFaultTolerance.attempts

\* ----------------------------------------------------------------- C18
\* The counter values the RoundRobin director gave caller p, in order.
Tickets(p) ==
    LET adds == SelectSeq(trace[p],
                          LAMBDA e : e.ev = "add" /\ e.idx \in LayersOf("LoadBalancing"))
    IN  [i \in 1 .. Len(adds) |-> adds[i].arg]

HeaderLayersNamed(c) ==
    {j \in LayersOf("Header") :
        ds[j].name \in IF c = "Authorization"
                       THEN {"Authorization", "authorization"} ELSE {c}}

\* C18: FaultTolerance gives every attempt the same request. With one
\* FaultTolerance layer, outermost, a call that made n attempts returns to
\* its caller with n values added by each Header layer inside, n counter
\* values drawn in a row from each RoundRobin director inside, and the host
\* of the last of them.
C18_RequestReusedAcrossAttempts ==
    \A p \in Procs :
        (/\ Done(p)
         /\ OneFaultTolerance
         /\ ds[Len(ds)].kind = "FaultTolerance"
         /\ Count(trace[p], "do") >= 1)
            => LET n == Count(trace[p], "do")
                   h == req[p].Header
                   k == Tickets(p)
                   L == Len(backends)
               IN  /\ \A j \in LayersOf("Header") :
                          LET c == IF ds[j].name = "authorization"
                                   THEN "Authorization" ELSE ds[j].name
                          IN  /\ c \in DOMAIN h
                              /\ Len(h[c]) = Len(ValuesBefore(c))
                                     + n * Cardinality(HeaderLayersNamed(c))
                              /\ Len(SelectSeq(h[c], LAMBDA v : v = ds[j].value))
                                     >= n
                   /\ (LayersOf("LoadBalancing") # {} /\ L > 0)
                          => /\ Len(k) = n * Cardinality(LayersOf("LoadBalancing"))
                             /\ \A i \in 1 .. Len(k) :
                                    k[i] = (k[1] + i - 1) % Uint64Mod
                             /\ req[p].URL.Host = backends[(k[Len(k)] % L) + 1]

\* A call through decoratorMain's pipeline has made three attempts.
C18_Witness ==
    \E p \in Procs :
        /\ Done(p)
        /\ ds = decoratorMain
        /\ Count(trace[p], "do") = 3
        /\ Len(req[p].Header["Authorization"]) = 4
        /\ Len(Tickets(p)) = 3
        /\ req[p].URL.Host = backends[(Tickets(p)[3] % Len(backends)) + 1]

\* ----------------------------------------------------------------- C19
\* The index in bs of the host h.
IndexOf(h, bs) == (CHOOSE i \in 1 .. Len(bs) : bs[i] = h) - 1

\* C19: for every starting counter and L > 0 backends, also when the counter
\* overflows: the counter only grows, each invocation selects the backend
\* after the one the invocation before it selected, (previous index + 1)
\* mod L, and any L invocations in a row select all L backends.
C19_CyclicAcrossOverflow ==
    LET L == Len(backends)
    IN  L > 0 =>
            /\ \A i \in 2 .. Len(picks) :
                  /\ picks[i].n > picks[i - 1].n
                  /\ IndexOf(picks[i].host, backends)
                         = (IndexOf(picks[i - 1].host, backends) + 1) % L
            /\ \A i \in 1 .. Len(picks) - L + 1 :
                  {picks[j].host : j \in i .. i + L - 1} = HostsOf(backends)

\* The same without the counter's order, for the selections alone.
C19_CyclicSelections ==
    LET L == Len(backends)
    IN  L > 0 =>
            \A i \in 2 .. Len(picks) :
                IndexOf(picks[i].host, backends)
                    = (IndexOf(picks[i - 1].host, backends) + 1) % L

\* ----------------------------------------------------------------- C20
\* Caller p's call is suspended in a backoff sleep.
Sleeping(p) == phase[p] = "sleep"

\* C20: a backoff sleep holds up no other call: while a call sleeps, every
\* other caller that is in a call has a step it can take, and every caller
\* that is outside can start a call (while the behaviour has calls left).
C20_SleepBlocksOnlyItsCall ==
    \A p \in Procs :
        Sleeping(p) =>
            \A q \in Procs \ {p} :
                /\ (Outside(q) /\ calls < MaxCalls) => ENABLED Invoke(q, MaxCalls)
                /\ ~Outside(q) => ENABLED Step(q)

\* While p sleeps, for a time still to pass, after the base call that failed
\* it, q's call has made a later base call through all its layers and has
\* returned a response.
C20_Witness ==
    \E p, q \in Procs :
        /\ p # q
        /\ Sleeping(p)
        /\ wake[p] > clock
        /\ Done(q)
        /\ ret[q].err = 0
        /\ Count(trace[q], "post") = Len(ds)
        /\ \E i \in Positions(trace[p], "do"), j \in Positions(trace[q], "do") :
              trace[q][j].arg > trace[p][i].arg

====
